---- MODULE Spec2Model ----
(***************************************************************************)
(* Model of src/src/MapperFactory.py (Python 2): the motor mappers Linear, *)
(* WeightedSum, Quaternion2Euler*, Composite and the factory build().      *)
(*                                                                         *)
(* Python values are tagged records:                                       *)
(*   number   [k |-> "num", f, n, d]  f = TRUE for a float, n/d its value  *)
(*            (an int has d = 1); floats are kept as exact rationals.      *)
(*   tuple    [k |-> "tup", xs]                                            *)
(*   None     [k |-> "none"]                                               *)
(*   a raised exception  [k |-> "err", e]  with e the exception's class.   *)
(*   a mapper instance   [k |-> "obj", cls, ...its attributes]             *)
(* A yaml dict is a TLA+ record (args.has_key(x) is x \in DOMAIN args)     *)
(* wrapped as [k |-> "dict", d]; a yaml list is [k |-> "list", items].     *)
(***************************************************************************)
EXTENDS Integers, Sequences, FiniteSets, TLC

VARIABLES
  desc,     \* the stage description object held by the configuration owner
  motor,    \* the motor_entry (actuator descriptor) object
  mapper,   \* what build(desc, motor) returned (None before the call)
  out,      \* the last completed map call: [arg, ret], or None
  pc,       \* the caller: "config" before build, "ready" to call map,
            \* "returned" when map has just returned `out`
  edited    \* TRUE once the owner has edited the description in place

vars == <<desc, motor, mapper, out, pc, edited>>

\* ------------------------------------------------------------------ bounds
MaxInt == 1
MaxStages == 2
MaxTerms == 2
MaxArity == 2

\* ------------------------------------------------------------ Python values
None == [k |-> "none"]
Err(e) == [k |-> "err", e |-> e]
Tup(xs) == [k |-> "tup", xs |-> xs]
Dict(d) == [k |-> "dict", d |-> d]
List(items) == [k |-> "list", items |-> items]

IsNum(v) == v.k = "num"
IsErr(v) == v.k = "err"

Abs(n) == IF n < 0 THEN -n ELSE n

RECURSIVE Gcd(_, _)
Gcd(a, b) == IF b = 0 THEN a ELSE Gcd(b, a % b)

\* the int n
I(n) == [k |-> "num", f |-> FALSE, n |-> n, d |-> 1]

\* the float n/d (d # 0), in lowest terms with a positive denominator
F(n, d) ==
  LET g == Gcd(Abs(n), Abs(d))
      s == IF d < 0 THEN -1 ELSE 1
  IN  [k |-> "num", f |-> TRUE, n |-> s * (n \div g), d |-> Abs(d) \div g]

\* int op int is an int, anything with a float is a float
Mk(isfloat, n, d) == IF isfloat THEN F(n, d) ELSE I(n)

\* floor(a / b) for ints, b # 0 (Python 2 int division rounds to -infinity)
FloorDiv(a, b) == IF b > 0 THEN a \div b ELSE (-a) \div (-b)

\* a == b, a < b on numbers (Python compares int and float by value)
NumEq(a, b) == a.n * b.d = b.n * a.d
NumLt(a, b) == a.n * b.d < b.n * a.d

\* a + b: a tuple and a number do not add (TypeError)
PyAdd(a, b) ==
  IF IsErr(a) THEN a
  ELSE IF IsErr(b) THEN b
  ELSE IF IsNum(a) /\ IsNum(b)
       THEN Mk(a.f \/ b.f, a.n * b.d + b.n * a.d, a.d * b.d)
  ELSE Err("TypeError")

\* -a
PyNeg(a) == IF IsNum(a) THEN Mk(a.f, -a.n, a.d) ELSE Err("TypeError")

\* a - b
PySub(a, b) ==
  IF IsErr(a) THEN a
  ELSE IF IsErr(b) THEN b
  ELSE IF IsNum(a) /\ IsNum(b)
       THEN Mk(a.f \/ b.f, a.n * b.d - b.n * a.d, a.d * b.d)
  ELSE Err("TypeError")

\* a * b on numbers (no stage multiplies a tuple by an int in the inputs drawn)
PyMul(a, b) ==
  IF IsErr(a) THEN a
  ELSE IF IsErr(b) THEN b
  ELSE IF IsNum(a) /\ IsNum(b)
       THEN Mk(a.f \/ b.f, a.n * b.n, a.d * b.d)
  ELSE Err("TypeError")

\* a / b without "from __future__ import division": floor division on two
\* ints, true division otherwise, ZeroDivisionError on a zero divisor
PyDiv(a, b) ==
  IF IsErr(a) THEN a
  ELSE IF IsErr(b) THEN b
  ELSE IF ~(IsNum(a) /\ IsNum(b)) THEN Err("TypeError")
  ELSE IF b.n = 0 THEN Err("ZeroDivisionError")
  ELSE IF a.f \/ b.f THEN F(a.n * b.d, a.d * b.n)
  ELSE I(FloorDiv(a.n, b.n))

\* the builtins min(a, b) and max(a, b): the first argument wins a tie
PyMin(a, b) == IF NumLt(b, a) THEN b ELSE a
PyMax(a, b) == IF NumLt(a, b) THEN b ELSE a

\* ------------------------------------------------------------------ heap
\* The object reached from the description `root` by the index path `path`
\* (<<>> is the description itself, <<i>> the i-th element of a list).
RECURSIVE Deref(_, _)
Deref(root, path) ==
  IF path = <<>> THEN root ELSE Deref(root.items[Head(path)], Tail(path))

\* The first raised exception among the elements of s, in order, or None.
RECURSIVE FirstErr(_, _)
FirstErr(s, i) ==
  IF i > Len(s) THEN None
  ELSE IF IsErr(s[i]) THEN s[i]
  ELSE FirstErr(s, i + 1)

\* ---------------------------------------------------------------- Linear
\* LinearInit with its two branches in the other order (min/max tried
\* first): a faulty variant that C10 tells apart from the code.
LinearInitRangeFirst(args, motor_entry) ==
  IF "min" \in DOMAIN args /\ "max" \in DOMAIN args
  THEN LET sc == PyDiv(PySub(motor_entry.max, motor_entry.min),
                       PySub(args.max, args.min))
       IN  IF IsErr(sc) THEN sc
           ELSE [k |-> "obj", cls |-> "Linear", has |-> TRUE,
                 pretranslate |-> PyNeg(args.min),
                 scale |-> sc,
                 posttranslate |-> motor_entry.min]
  ELSE IF "scale" \in DOMAIN args /\ "translate" \in DOMAIN args
  THEN [k |-> "obj", cls |-> "Linear", has |-> TRUE,
        pretranslate |-> I(0),
        scale |-> args.scale,
        posttranslate |-> args.translate]
  ELSE [k |-> "obj", cls |-> "Linear", has |-> FALSE,
        pretranslate |-> None, scale |-> None, posttranslate |-> None]

\* LinearInit with a zero-width input range giving scale 0 instead of
\* raising: a faulty variant that C9 tells apart from the code.
LinearInitZeroWidth(args, motor_entry) ==
  IF "scale" \in DOMAIN args /\ "translate" \in DOMAIN args
  THEN [k |-> "obj", cls |-> "Linear", has |-> TRUE,
        pretranslate |-> I(0),
        scale |-> args.scale,
        posttranslate |-> args.translate]
  ELSE IF "min" \in DOMAIN args /\ "max" \in DOMAIN args
  THEN LET sc == PyDiv(PySub(motor_entry.max, motor_entry.min),
                       PySub(args.max, args.min))
       IN  [k |-> "obj", cls |-> "Linear", has |-> TRUE,
            pretranslate |-> PyNeg(args.min),
            scale |-> IF IsErr(sc) THEN I(0) ELSE sc,
            posttranslate |-> motor_entry.min]
  ELSE [k |-> "obj", cls |-> "Linear", has |-> FALSE,
        pretranslate |-> None, scale |-> None, posttranslate |-> None]

\* Linear.__init__(args, motor_entry).  When neither key pair is present no
\* branch runs: the instance is returned without attributes (has = FALSE).
LinearInit(args, motor_entry) ==
  IF "scale" \in DOMAIN args /\ "translate" \in DOMAIN args
  THEN [k |-> "obj", cls |-> "Linear", has |-> TRUE,
        pretranslate |-> I(0),
        scale |-> args.scale,
        posttranslate |-> args.translate]
  ELSE IF "min" \in DOMAIN args /\ "max" \in DOMAIN args
  THEN LET sc == PyDiv(PySub(motor_entry.max, motor_entry.min),
                       PySub(args.max, args.min))
       IN  IF IsErr(sc) THEN sc
           ELSE [k |-> "obj", cls |-> "Linear", has |-> TRUE,
                 pretranslate |-> PyNeg(args.min),
                 scale |-> sc,
                 posttranslate |-> motor_entry.min]
  ELSE [k |-> "obj", cls |-> "Linear", has |-> FALSE,
        pretranslate |-> None, scale |-> None, posttranslate |-> None]

\* Linear.map(val): reading a missing attribute raises AttributeError.
LinearMap(self, val) ==
  IF ~self.has THEN Err("AttributeError")
  ELSE PyAdd(PyMul(PyAdd(val, self.pretranslate), self.scale),
             self.posttranslate)

\* ----------------------------------------------------------- WeightedSum
\* _saturated clamping to [min, max] as written instead of the unordered
\* bounds: a faulty variant that C7 tells apart from the code.
SaturatedOrdered(val, interval) ==
  PyMin(PyMax(val, interval.min), interval.max)

\* WeightedSum._saturated(val, interval)
Saturated(val, interval) ==
  PyMin(PyMax(val, PyMin(interval.min, interval.max)),
        PyMax(interval.min, interval.max))

\* WeightedSum.__init__(args, motor_entry); `path` is where args lives, so
\* that termargs is the list object args["terms"] itself, not a copy.
\* (Python 2's map() is eager: the divisions happen here.)
WeightedSumInit(args, motor_entry, path) ==
  LET range_motors == PySub(motor_entry.max, motor_entry.min) IN
  IF "imin" \notin DOMAIN args THEN Err("KeyError")
  ELSE IF "terms" \notin DOMAIN args THEN Err("KeyError")
  ELSE
    LET terms == args.terms
        pre == [i \in 1..Len(terms) |-> PyNeg(terms[i].min)]
        sf  == [i \in 1..Len(terms) |->
                 PyMul(PyDiv(PySub(terms[i].imax, args.imin),
                             PySub(terms[i].max, terms[i].min)),
                       range_motors)]
    IN  IF FirstErr(sf, 1) # None THEN FirstErr(sf, 1)
        ELSE [k |-> "obj", cls |-> "WeightedSum",
              posttranslate |->
                PyAdd(PyMul(args.imin, range_motors), motor_entry.min),
              pretranslations |-> pre,
              scalefactors |-> sf,
              termargs |-> path]

\* min(len) of the zipped sequences: zip() stops at the shortest
ZipLen(vals, self, terms) ==
  LET lens == {Len(vals), Len(self.pretranslations),
               Len(self.scalefactors), Len(terms)}
  IN  CHOOSE m \in lens : \A x \in lens : m <= x

\* sum(...) of the first n zipped items, left to right starting from int 0
RECURSIVE WeightedSumTerms(_, _, _, _)
WeightedSumTerms(self, xs, terms, n) ==
  IF n = 0 THEN I(0)
  ELSE PyAdd(WeightedSumTerms(self, xs, terms, n - 1),
             PyMul(PyAdd(Saturated(xs[n], terms[n]),
                         self.pretranslations[n]),
                   self.scalefactors[n]))

\* WeightedSum.map(vals) with the description currently in memory: the
\* saturation bounds are read from the retained term list at every call.
WeightedSumMap(self, vals, root) ==
  IF vals.k # "tup" THEN Err("TypeError")
  ELSE LET terms == Deref(root, self.termargs).d.terms
       IN  PyAdd(WeightedSumTerms(self, vals.xs, terms,
                                  ZipLen(vals.xs, self, terms)),
                 self.posttranslate)

\* ------------------------------------------------------ Quaternion2Euler
\* str.lower() on the axis names drawn
Lower(s) ==
  IF s = "X" THEN "x" ELSE IF s = "Y" THEN "y" ELSE IF s = "Z" THEN "z" ELSE s

\* Quaternion2EulerYZX.__init__ / Quaternion2EulerYZY.__init__: one of the
\* three axis functions is selected at construction.
QuaternionInit(cls, args) ==
  IF "axis" \notin DOMAIN args THEN Err("KeyError")
  ELSE IF Lower(args.axis) \notin {"x", "y", "z"} THEN Err("KeyError")
  ELSE [k |-> "obj", cls |-> cls, axis |-> Lower(args.axis)]

\* The selected lambda reads q.w, q.x, q.y, q.z: on the numbers and tuples
\* drawn as inputs here that attribute access raises AttributeError.
QuaternionMap(self, q) == Err("AttributeError")

\* -------------------------------------------------------------- Composite
\* Composite.__init__(mapper_list)
CompositeInit(mapper_list) ==
  [k |-> "obj", cls |-> "Composite", mapper_list |-> mapper_list]

RECURSIVE MapperMap(_, _, _)
RECURSIVE CompositeLoop(_, _, _, _)

\* The loop body without the assignment back to val: a faulty variant that
\* C2 tells apart from the code.
CompositeStepDropped(mapper_instance, val, root) == val

\* One pass of the for loop body: val = mapper_instance.map(val)
CompositeStep(mapper_instance, val, root) == MapperMap(mapper_instance, val, root)

\* Composite.map(val): the for loop from position i on; an exception raised
\* by a stage leaves the loop.
CompositeLoop(mapper_list, i, val, root) ==
  IF i > Len(mapper_list) THEN val
  ELSE LET r == CompositeStep(mapper_list[i], val, root)
       IN  IF IsErr(r) THEN r
           ELSE CompositeLoop(mapper_list, i + 1, r, root)

\* instance.map(val), dispatched on the instance's class
MapperMap(self, val, root) ==
  CASE self.cls = "Linear" -> LinearMap(self, val)
    [] self.cls = "WeightedSum" -> WeightedSumMap(self, val, root)
    [] self.cls = "Composite" -> CompositeLoop(self.mapper_list, 1, val, root)
    [] OTHER -> QuaternionMap(self, val)

\* ------------------------------------------------------------------ build
mapper_classes ==
  [linear |-> "Linear", weightedsum |-> "WeightedSum",
   quaternion2euler |-> "Quaternion2EulerYZX",
   quaternion2YZY |-> "Quaternion2EulerYZY"]

\* The registry lookup with a fallback to Linear for an unknown name: a
\* faulty variant that C4 tells apart from the code.
LookupClassOrLinear(name) ==
  IF name \in DOMAIN mapper_classes
  THEN [k |-> "class", c |-> mapper_classes[name]]
  ELSE [k |-> "class", c |-> "Linear"]

\* _mapper_classes[name]: the class, or KeyError
LookupClass(name) ==
  IF name \in DOMAIN mapper_classes
  THEN [k |-> "class", c |-> mapper_classes[name]]
  ELSE Err("KeyError")

\* cls(yamlobj, motor_entry)
Construct(cls, args, motor_entry, path) ==
  CASE cls = "Linear" -> LinearInit(args, motor_entry)
    [] cls = "WeightedSum" -> WeightedSumInit(args, motor_entry, path)
    [] OTHER -> QuaternionInit(cls, args)

\* the dict branch of build
BuildStage(args, motor_entry, path) ==
  IF "name" \notin DOMAIN args THEN Err("KeyError")
  ELSE LET cls == LookupClass(args.name)
       IN  IF IsErr(cls) THEN cls
           ELSE Construct(cls.c, args, motor_entry, path)

RECURSIVE build(_, _, _)

\* The list branch collecting the built stages in reverse order: a faulty
\* variant that C3 tells apart from the code.
BuildListReversed(items, motor_entry, path) ==
  LET n == Len(items)
      built == [i \in 1..n |->
                  build(items[n + 1 - i], motor_entry, Append(path, n + 1 - i))]
  IN  IF FirstErr(built, 1) # None THEN FirstErr(built, 1)
      ELSE CompositeInit(built)

\* the list branch of build: the comprehension builds the elements in order
\* and the first exception ends it
BuildList(items, motor_entry, path) ==
  LET built == [i \in 1..Len(items) |->
                  build(items[i], motor_entry, Append(path, i))]
  IN  IF FirstErr(built, 1) # None THEN FirstErr(built, 1)
      ELSE CompositeInit(built)

\* build(yamlobj, motor_entry); neither dict nor list falls off the end
build(yamlobj, motor_entry, path) ==
  IF yamlobj.k = "dict" THEN BuildStage(yamlobj.d, motor_entry, path)
  ELSE IF yamlobj.k = "list" THEN BuildList(yamlobj.items, motor_entry, path)
  ELSE None

\* ------------------------------------------------- configurations drawn
Ints == {I(n) : n \in -MaxInt..MaxInt}
Floats == {F(n, 2) : n \in {-1, 1, 3}} \cup {F(0, 1), F(1, 1)}
Nums == Ints \cup Floats

\* motor_entry stanzas: every min/max, and a few for the larger families
Motors == [min : Nums, max : Nums]
FewMotors == {[min |-> I(0), max |-> I(1)],
              [min |-> F(-1, 2), max |-> F(3, 2)],
              [min |-> I(1), max |-> I(-1)]}

\* the record r restricted to the keys ks
Keep(r, ks) == [x \in ks |-> r[x]]

\* - name: linear, min/max form
LinearRange == {[name |-> "linear", min |-> a, max |-> b] : a, b \in Nums}

\* - name: linear, scale/translate form, min and max possibly present as well
LinearAffine ==
  {[name |-> "linear", scale |-> a, translate |-> b] : a, b \in Nums}
  \cup
  {[name |-> "linear", scale |-> a, translate |-> b, min |-> I(0), max |-> c] :
     a, b \in Nums, c \in {I(0), I(1)}}

\* - name: linear with neither key pair complete
LinearPartial ==
  LET full == [name |-> "linear", scale |-> I(2), translate |-> I(1),
               min |-> I(0), max |-> I(1)]
  IN  {Keep(full, {"name"} \cup ks) :
         ks \in {x \in SUBSET {"scale", "translate", "min", "max"} :
                   ~({"scale", "translate"} \subseteq x)
                   /\ ~({"min", "max"} \subseteq x)}}

\* weightedsum term entries: the docstring's two, an inverted one, a
\* zero-width one
Terms ==
  {[min |-> I(0), max |-> I(1), imax |-> I(0)],
   [min |-> I(0), max |-> F(3, 5), imax |-> I(1)],
   [min |-> I(1), max |-> I(0), imax |-> I(1)],
   [min |-> F(1, 1), max |-> I(1), imax |-> I(1)]}

RECURSIVE SeqsUpTo(_, _)
\* the sequences over S of length <= n
SeqsUpTo(S, n) ==
  IF n = 0 THEN {<<>>}
  ELSE LET shorter == SeqsUpTo(S, n - 1)
       IN  shorter \cup {Append(s, x) : s \in shorter, x \in S}

\* - name: weightedsum
WeightedSums ==
  {[name |-> "weightedsum", imin |-> m, terms |-> ts] :
     m \in {I(0), F(2, 5)}, ts \in SeqsUpTo(Terms, MaxTerms)}
  \cup {[name |-> "weightedsum", terms |-> <<>>],
        [name |-> "weightedsum", imin |-> I(0)]}

\* - name: quaternion2euler / quaternion2YZY, and names not in the registry
Others ==
  {[name |-> n, axis |-> a] :
     n \in {"quaternion2euler", "quaternion2YZY"}, a \in {"x", "Y", "w"}}
  \cup {[name |-> "quaternion2euler"], [name |-> "bogus", scale |-> I(1),
        translate |-> I(0)], [axis |-> "x"]}

\* the stage records that appear as elements of a list
ListStages ==
  {[name |-> "linear", scale |-> I(2), translate |-> I(1)],
   [name |-> "linear", scale |-> F(1, 2), translate |-> I(0)],
   [name |-> "linear", min |-> I(0), max |-> I(2)],
   [name |-> "linear", min |-> I(1), max |-> I(1)],
   [name |-> "linear", scale |-> I(1)],
   [name |-> "weightedsum", imin |-> I(0),
    terms |-> <<[min |-> I(0), max |-> I(1), imax |-> I(1)]>>],
   [name |-> "quaternion2euler", axis |-> "z"],
   [name |-> "bogus", scale |-> I(1), translate |-> I(0)]}

Lists == {List(s) : s \in SeqsUpTo({Dict(d) : d \in ListStages}, MaxStages)}

\* (description, motor_entry) pairs a configuration file can hold
Configs ==
  ({Dict(d) : d \in LinearRange} \X Motors)
  \cup ({Dict(d) : d \in LinearAffine \cup LinearPartial
                       \cup WeightedSums \cup Others} \X FewMotors)
  \cup ((Lists \cup {[k |-> "scalar"]}) \X FewMotors)

\* values passed to map(): numbers, and tuples of numbers
TupleVals == {I(-1), F(1, 2), I(2)}
Inputs == Nums \cup {Tup(xs) : xs \in SeqsUpTo(TupleVals, MaxArity)}

\* ---------------------------------------------------------- state machine
Init ==
  /\ \E c \in Configs : desc = c[1] /\ motor = c[2]
  /\ mapper = None
  /\ out = None
  /\ pc = "config"
  /\ edited = FALSE

\* mapper = build(desc, motor_entry)
Build ==
  /\ pc = "config"
  /\ mapper' = build(desc, motor, <<>>)
  /\ pc' = "ready"
  /\ UNCHANGED <<desc, motor, out, edited>>

\* The arguments a caller passes next: any input on the first call, the
\* last argument again afterwards (map assigns no attribute, so a call with
\* another argument reaches only states that a first call reaches too).
NextArgs == IF out = None THEN Inputs ELSE {out.arg}

\* mapper.map(v), for a mapper that build returned
Map ==
  /\ pc \in {"ready", "returned"}
  /\ mapper.k = "obj"
  /\ \E v \in NextArgs :
       out' = [arg |-> v, ret |-> MapperMap(mapper, v, desc)]
  /\ pc' = "returned"
  /\ UNCHANGED <<desc, motor, mapper, edited>>

\* where the weightedsum stage records of the description live
TermPaths(root) ==
  LET all == IF root.k = "dict" THEN {<<>>}
             ELSE IF root.k = "list"
                  THEN {<<j>> : j \in 1..Len(root.items)}
                  ELSE {}
  IN  {p \in all : "terms" \in DOMAIN Deref(root, p).d}

\* root with term i of the stage at path given a new value for `key`
RECURSIVE SetTerm(_, _, _, _, _)
SetTerm(obj, path, i, key, v) ==
  IF path = <<>> THEN [obj EXCEPT !.d.terms[i][key] = v]
  ELSE [obj EXCEPT !.items[Head(path)] = SetTerm(@, Tail(path), i, key, v)]

EditVals == {I(2), F(1, 2)}

\* The owner of the description (the yaml loader's caller) assigns a term's
\* min or max in place after the mappers were built.  The description is a
\* plain dict/list that build() neither copies nor freezes.  One assignment
\* is followed (edited); the caller is then ready to call map again.
Edit ==
  /\ pc \in {"ready", "returned"}
  /\ ~edited
  /\ \E p \in TermPaths(desc) :
       \E i \in 1..Len(Deref(desc, p).d.terms) :
         \E key \in {"min", "max"}, v \in EditVals :
           desc' = SetTerm(desc, p, i, key, v)
  /\ edited' = TRUE
  /\ pc' = "ready"
  /\ UNCHANGED <<motor, mapper, out>>

Next == Build \/ Map \/ Edit

Spec == Init /\ [][Next]_vars

\* ================================================================ claims
\* The description is a single stage record named `name`.
IsStage(name) ==
  desc.k = "dict" /\ "name" \in DOMAIN desc.d /\ desc.d.name = name

HasPair(d, a, b) == a \in DOMAIN d /\ b \in DOMAIN d

\* a linear record in the explicit affine form
AffineForm == IsStage("linear") /\ HasPair(desc.d, "scale", "translate")

\* a linear record in the range-fitting form
RangeForm ==
  IsStage("linear") /\ ~HasPair(desc.d, "scale", "translate")
  /\ HasPair(desc.d, "min", "max")

\* C1: for a range-fitting Linear stage {min: imin, max: imax}, imin # imax,
\* map(imin) == motor min and map(imax) == motor max, ints included.
C1_EndpointsOnMotorBounds ==
  (pc = "returned" /\ RangeForm /\ ~NumEq(desc.d.min, desc.d.max)
   /\ IsNum(out.arg))
  => /\ NumEq(out.arg, desc.d.min)
          => IsNum(out.ret) /\ NumEq(out.ret, motor.min)
     /\ NumEq(out.arg, desc.d.max)
          => IsNum(out.ret) /\ NumEq(out.ret, motor.max)

\* the stages of L applied one after another, the last stage outermost
RECURSIVE ApplyInOrder(_, _, _)
ApplyInOrder(L, v, root) ==
  IF L = <<>> THEN v
  ELSE LET prev == ApplyInOrder(SubSeq(L, 1, Len(L) - 1), v, root)
       IN  IF IsErr(prev) THEN prev
           ELSE MapperMap(L[Len(L)], prev, root)

\* C2: Composite(L).map(v) is the left-to-right fold of the stages' maps;
\* Composite([]).map(v) == v and Composite([A, B]).map(v) == B.map(A.map(v)).
C2_CompositeIsFold ==
  (pc = "returned" /\ mapper.cls = "Composite")
  => LET L == mapper.mapper_list
         v == out.arg
     IN  /\ out.ret = ApplyInOrder(L, v, desc)
         /\ Len(L) = 0 => out.ret = v
         /\ Len(L) = 2 =>
              LET a == MapperMap(L[1], v, desc)
              IN  out.ret = IF IsErr(a) THEN a ELSE MapperMap(L[2], a, desc)

\* a two-stage Composite has returned a number that the stages in the
\* opposite order would not have returned
C2_Witness ==
  /\ pc = "returned" /\ mapper.cls = "Composite"
  /\ Len(mapper.mapper_list) = 2
  /\ IsNum(out.ret)
  /\ out.ret # ApplyInOrder(<<mapper.mapper_list[2], mapper.mapper_list[1]>>,
                            out.arg, desc)

\* C3: build on a list returns a Composite with one stage per record, in the
\* list's order, each built from its record against the same motor_entry, and
\* its map applies those stages one after another.
C3_BuildListInOrder ==
  (pc # "config" /\ desc.k = "list" /\ mapper.k = "obj" /\ ~edited)
  => LET each == [i \in 1..Len(desc.items) |->
                    BuildStage(desc.items[i].d, motor, <<i>>)]
     IN  /\ mapper.cls = "Composite"
         /\ Len(mapper.mapper_list) = Len(desc.items)
         /\ \A i \in 1..Len(desc.items) : mapper.mapper_list[i] = each[i]
         /\ pc = "returned" => out.ret = ApplyInOrder(each, out.arg, desc)

\* a Composite built from two different records has returned a number
C3_Witness ==
  /\ pc = "returned" /\ desc.k = "list" /\ mapper.k = "obj" /\ ~edited
  /\ Len(desc.items) = 2 /\ desc.items[1] # desc.items[2]
  /\ mapper.mapper_list[1] # mapper.mapper_list[2]
  /\ IsNum(out.ret)

\* the names the registry is said to hold
Registry == {"linear", "weightedsum", "quaternion2euler", "quaternion2YZY"}

UnknownName(y) ==
  y.k = "dict" /\ "name" \in DOMAIN y.d /\ y.d.name \notin Registry

\* C4: build on a record whose name is not in the registry ends in an error
\* and returns no transform, also when the record is an element of a list.
C4_UnknownNameFails ==
  /\ (pc # "config" /\ UnknownName(desc))
       => mapper = Err("KeyError") /\ out = None
  /\ (pc # "config" /\ desc.k = "list"
      /\ \E i \in 1..Len(desc.items) : UnknownName(desc.items[i]))
       => IsErr(mapper) /\ out = None

\* build has raised KeyError on a list whose first record builds and whose
\* second record has an unknown name
C4_Witness ==
  /\ pc = "ready" /\ desc.k = "list" /\ Len(desc.items) = 2
  /\ ~IsErr(BuildStage(desc.items[1].d, motor, <<1>>))
  /\ UnknownName(desc.items[2])
  /\ mapper = Err("KeyError")

\* C5: a linear record with neither (scale, translate) nor (min, max) fully
\* present fails at construction; no instance is returned.
C5_PartialLinearFails ==
  (pc # "config" /\ IsStage("linear")
   /\ ~HasPair(desc.d, "scale", "translate") /\ ~HasPair(desc.d, "min", "max"))
  => IsErr(mapper) /\ out = None

\* C6: a WeightedSum given a tuple whose arity differs from its term count
\* reports an error and computes no value.
C6_ArityMismatchFails ==
  (pc = "returned" /\ mapper.cls = "WeightedSum" /\ out.arg.k = "tup"
   /\ Len(out.arg.xs) # Len(mapper.pretranslations))
  => IsErr(out.ret)

\* v clamped to the unordered bounds of the term t
Clamped(v, t) ==
  LET lo == IF NumLt(t.max, t.min) THEN t.max ELSE t.min
      hi == IF NumLt(t.max, t.min) THEN t.min ELSE t.max
  IN  IF NumLt(v, lo) THEN lo ELSE IF NumLt(hi, v) THEN hi ELSE v

\* posttranslate + (clamped_i + pretranslate_i) * scale_i for i = from..n
RECURSIVE ClampedSum(_, _, _, _)
ClampedSum(self, xs, terms, from) ==
  IF from > Len(xs) THEN self.posttranslate
  ELSE PyAdd(PyMul(PyAdd(Clamped(xs[from], terms[from]),
                         self.pretranslations[from]),
                   self.scalefactors[from]),
             ClampedSum(self, xs, terms, from + 1))

\* C7: WeightedSum.map clamps every input to [min(t.min, t.max),
\* max(t.min, t.max)] of its own term before translating and scaling, and
\* raises nothing, whether the term's bounds are in order or inverted.
C7_SaturatesToUnorderedBounds ==
  (pc = "returned" /\ mapper.cls = "WeightedSum" /\ out.arg.k = "tup"
   /\ Len(out.arg.xs) = Len(mapper.pretranslations))
  => /\ IsNum(out.ret)
     /\ NumEq(out.ret, ClampedSum(mapper, out.arg.xs, desc.d.terms, 1))

\* a WeightedSum whose first term has inverted bounds has returned for an
\* input above the larger bound
C7_Witness ==
  /\ pc = "returned" /\ mapper.cls = "WeightedSum" /\ out.arg.k = "tup"
  /\ Len(out.arg.xs) = Len(mapper.pretranslations)
  /\ Len(out.arg.xs) >= 1
  /\ NumLt(desc.d.terms[1].max, desc.d.terms[1].min)
  /\ NumLt(desc.d.terms[1].min, out.arg.xs[1])
  /\ mapper.scalefactors[1].n # 0
  /\ IsNum(out.ret)

\* C8: a map call changes no field of the instance, and a later call with
\* the same input returns the same value, whatever the description holds by
\* then.
C8_MapIsPure ==
  [][/\ pc' = "returned" => mapper' = mapper
     /\ (out # None /\ out' # None /\ out'.arg = out.arg)
          => out'.ret = out.ret]_vars

\* C9: a range-fitting linear record with min == max fails at construction,
\* for every motor_entry.
C9_ZeroWidthRangeFails ==
  (pc # "config" /\ RangeForm /\ NumEq(desc.d.min, desc.d.max))
  => mapper = Err("ZeroDivisionError") /\ out = None

\* build has raised on an int min equal to a float max
C9_Witness ==
  /\ pc = "ready" /\ RangeForm /\ NumEq(desc.d.min, desc.d.max)
  /\ desc.d.min.f # desc.d.max.f
  /\ ~NumEq(motor.min, motor.max)
  /\ mapper = Err("ZeroDivisionError")

\* C10: a linear record holding scale and translate maps v to
\* v * scale + translate, whatever else it holds and whatever the motor_entry.
C10_AffineForm ==
  (pc = "returned" /\ AffineForm /\ IsNum(out.arg))
  => /\ IsNum(out.ret)
     /\ NumEq(out.ret, PyAdd(PyMul(out.arg, desc.d.scale), desc.d.translate))

\* an affine record that also holds min and max has returned a value that is
\* not its input
C10_Witness ==
  /\ pc = "returned" /\ AffineForm /\ HasPair(desc.d, "min", "max")
  /\ IsNum(out.arg) /\ IsNum(out.ret)
  /\ ~NumEq(out.ret, out.arg)
  /\ ~NumEq(motor.min, I(0))

====
